---- MODULE Spec2Model ----
(***************************************************************************)
(* A model of codereview.py: the per-pull-request review-state record, the  *)
(* single-shot commands (overview, status, review, reset) and the           *)
(* interactive session that operates on the record.                         *)
(*                                                                          *)
(* The state file of one pr_key is the variable disk.  A single-shot        *)
(* command is one action.  An interactive command that loops over selectors *)
(* (p, print, rs, rd) is read in one step, takes one step per selector, as  *)
(* the generator valid_ids yields them, and ends with the step that extends *)
(* approved and runs cmd_status; while it runs no other action is enabled.  *)
(* The console transcript of a step (what it printed, the prompts it asked  *)
(* and the answers it read) is the variable out.                            *)
(*                                                                          *)
(* Spec is one terminal running commands one after the other; SpecProcs is  *)
(* two terminals running cmd_review at the same time, in the steps at which *)
(* the state file is read and written.                                      *)
(***************************************************************************)
EXTENDS Integers, Sequences, FiniteSets, TLC

\* ------------------------------------------------------------------ bounds

\* Longest file list the pull-request metadata returns.
MaxFiles == 2
\* Largest additions count, and largest deletions count, of one file.
MaxChange == 1
\* Longest selector list typed after an interactive command.
MaxIds == 2

\* --------------------------------------------------------------- constants

Range(s) == {s[i] : i \in 1..Len(s)}

\* The i-th changed file of the pull request is PathSeq[i]; the last name is
\* never part of a pull request (a path the record does not know).
PathSeq == <<"a.py", "b.py", "c.py", "d.py", "e.py">>

\* A state file without entries.
NoFiles == [p \in {} |-> [lines |-> 0, reviewed |-> FALSE]]
\* The state file does not exist.
Absent == [kind |-> "absent", files |-> NoFiles, total_lines |-> 0]
\* The state file exists and holds no complete JSON document.
Torn == [kind |-> "torn", files |-> NoFiles, total_lines |-> 0]
\* Python's None.
None == [kind |-> "None", files |-> NoFiles, total_lines |-> 0]

\* Exceptions that end the process.
NoErr == "ok"
NameErr == "NameError"
ValueErr == "ValueError"
JSONErr == "JSONDecodeError"
SysExit == "SystemExit"
\* EOFError or KeyboardInterrupt raised by input() inside yn (line 66).
Interrupted == "EOFError or KeyboardInterrupt"

Modes == {"skim", "deep"}

\* ------------------------------------------------------------------ helpers

SeqsUpTo(S, n) == UNION {[1..k -> S] : k \in 0..n}

RECURSIVE SumOver(_, _)
\* sum of f[x].lines over the keys x in S
SumOver(f, S) ==
  IF S = {} THEN 0
  ELSE LET x == CHOOSE y \in S : TRUE
       IN f[x].lines + SumOver(f, S \ {x})

\* One line of the console transcript.
Msg(kind, path, tok, mode, nums) ==
  [msg |-> kind, path |-> path, tok |-> tok, mode |-> mode, nums |-> nums]

\* ------------------------------------------------- pull-request metadata

\* The additions and deletions counts of one changed file.
Changes == (0..MaxChange) \X (0..MaxChange)

\* One entry of "files" in the answer of gh pr view.
FileData(i, c) ==
  [path |-> PathSeq[i], additions |-> c[1], deletions |-> c[2]]

\* The file lists gh pr view returns: a pull request names each path once;
\* its i-th file is PathSeq[i].
FileLists ==
  UNION {{[i \in 1..k |-> FileData(i, c[i])] : c \in [1..k -> Changes]} :
           k \in 0..MaxFiles}

\* The paths a single-shot review is asked for: those a pull request can
\* name, and one it never names.
ReviewPaths == {PathSeq[i] : i \in 1..(MaxFiles + 1)}

\* -------------------------------------------------------- the state record

\* lines of one file, cmd_overview line 143
FileLines(f) == f.additions + f.deletions

RECURSIVE TotalOf_AdditionsOnly(_)
\* Mutant of TotalOf: the deletions are left out of the total.
TotalOf_AdditionsOnly(fl) ==
  IF fl = <<>> THEN 0
  ELSE Head(fl).additions + TotalOf_AdditionsOnly(Tail(fl))

RECURSIVE TotalOf(_)
\* total_lines as the loop accumulates it, cmd_overview line 145
TotalOf(fl) ==
  IF fl = <<>> THEN 0 ELSE FileLines(Head(fl)) + TotalOf(Tail(fl))

\* paths as the loop collects them, cmd_overview line 146
PathsOf(fl) == [i \in 1..Len(fl) |-> fl[i].path]

\* The record the loop of cmd_overview builds from a file list
\* (lines 138, 141-146).
CreateState(fl) ==
  [kind |-> "record",
   files |-> [p \in Range(PathsOf(fl)) |->
                LET i == CHOOSE k \in 1..Len(fl) : fl[k].path = p
                IN [lines |-> FileLines(fl[i]), reviewed |-> FALSE]],
   total_lines |-> TotalOf(fl)]

IsRecord(d) == d.kind = "record"

\* Mutant of MarkReviewed: the other files lose their flag.
MarkReviewed_ClearsOthers(state, path) ==
  [state EXCEPT !.files =
     [p \in DOMAIN @ |-> [@[p] EXCEPT !.reviewed = (p = path)]]]

\* Mutant of MarkReviewed: the lines of the file are taken off total_lines.
MarkReviewed_SubtractsLines(state, path) ==
  [state EXCEPT !.files[path].reviewed = TRUE,
                !.total_lines = @ - state.files[path].lines]

\* state["files"][path]["reviewed"] = True, cmd_review line 183
MarkReviewed(state, path) ==
  [state EXCEPT !.files[path].reviewed = TRUE]

\* ---------------------------------------------------------------- progress

\* sum of the lines of the reviewed files, cmd_status line 165
ReviewedLines(state) ==
  SumOver(state.files, {p \in DOMAIN state.files : state.files[p].reviewed})

\* Mutant of RemainingLines: the reviewed lines are reported as remaining.
RemainingLines_IsReviewed(state) == ReviewedLines(state)

\* cmd_status line 166
RemainingLines(state) == state.total_lines - ReviewedLines(state)

\* Mutant of Percent: a record without changed lines is 0 percent reviewed.
Percent_ZeroWhenEmpty(state) ==
  IF state.total_lines # 0
  THEN (ReviewedLines(state) * 100) \div state.total_lines
  ELSE 0

\* int((reviewed / total) * 100) if total else 100, cmd_status line 167.
\* int() truncates; for every total below 50 the double-precision quotient
\* truncates to the integer quotient (the first total where it falls one
\* short is 50, at 29/50), and the model's totals stay below that.
Percent(state) ==
  IF state.total_lines # 0
  THEN (ReviewedLines(state) * 100) \div state.total_lines
  ELSE 100

\* Mutant of FilesLeft: files without changed lines are not counted.
FilesLeft_SkipsEmptyFiles(state) ==
  Cardinality({p \in DOMAIN state.files :
                 ~state.files[p].reviewed /\ state.files[p].lines > 0})

\* cmd_status line 168
FilesLeft(state) ==
  Cardinality({p \in DOMAIN state.files : ~state.files[p].reviewed})

StatusMsg(state) ==
  Msg("status", "", <<>>, "",
      <<RemainingLines(state), Percent(state), FilesLeft(state)>>)

\* ------------------------------------------------------------------- state

VARIABLES
  pr,        \* the changed files of the pull request, as gh pr view lists them
  disk,      \* the state file of the pr_key: Absent, Torn or a record
  sess,      \* "none" or "running": an interactive session of this terminal
  paths,     \* _interactive_session's parameter paths
  approved,  \* _interactive_session's local approved
  line,      \* the command being executed by the session, and its selectors
  out,       \* console transcript of the last step
  exc,       \* the exception that ended the last command's process, or NoErr
  procs,     \* the concurrent reviews of SpecProcs: each one's position
  last,      \* history: the handler the last step ran, and the path it got
  marks      \* history: the paths whose flag the running session has turned
             \* from false to true in the state file, in that order

vars ==
  <<pr, disk, sess, paths, approved, line, out, exc, procs, last, marks>>

\* ---------------------------------------------------------------- handlers

\* What a handler leaves behind: the state file, what it printed, the
\* exception it raised (NoErr: none) and its return value.
Res(d, o, e, r) == [disk |-> d, out |-> o, err |-> e, ret |-> r]

Plain(kind) == Msg(kind, "", <<>>, "", <<>>)

\* yn(): the prompt and the answer read (1: "y", 0: anything else).
Asked(prompt, ans) == Msg(prompt, "", <<>>, "", <<IF ans THEN 1 ELSE 0>>)

\* save_state, lines 83-87, as one write: the two prints and the dump.
save_state(state) == Res(state, <<Plain("save")>>, NoErr, None)

\* cmd_overview, lines 123-153.  ghOk: current_pr_key and gh_view succeed.
\* With a first file the loop body runs: it enters the file in the
\* in-memory state (lines 142-146) and then evaluates the name `reviewed`
\* (line 147), which the function never binds: NameError leaves the handler
\* before save_state (line 152).  Only an empty file list reaches the save.
cmd_overview(d, ghOk) ==
  IF ~ghOk
  THEN Res(d, <<Plain("unable to determine current PR")>>, SysExit, None)
  ELSE IF Len(pr) >= 1
  THEN Res(d, <<Plain("PR Summary"), Plain("File Summary")>>, NameErr, None)
  ELSE LET s == save_state(CreateState(pr))
       IN Res(s.disk,
              <<Plain("PR Summary"), Plain("File Summary")>> \o s.out
                \o <<Msg("Total", "", <<>>, "",
                         <<Len(pr), CreateState(pr).total_lines>>)>>,
              NoErr, PathsOf(pr))

RECURSIVE load_state(_, _, _)
\* load_state, lines 72-80.  offer: the answer to "Run overview?".
load_state(d, offer, ghOk) ==
  IF d = Torn THEN Res(d, <<>>, JSONErr, None)
  ELSE IF d # Absent THEN Res(d, <<>>, NoErr, d)
  ELSE LET q == <<Asked("No state file. Run overview?", offer)>>
       IN IF offer
          THEN LET o == cmd_overview(d, ghOk)
               IN IF o.err # NoErr
                  THEN Res(o.disk, q \o o.out, o.err, None)
                  ELSE LET l == load_state(o.disk, offer, ghOk)
                       IN Res(l.disk, q \o o.out \o l.out, l.err, l.ret)
          ELSE Res(d, q, NoErr, None)

\* Mutant of cmd_status: the state file of a finished review is removed.
cmd_status_RemovesFinished(d, offer, ghOk) ==
  LET l == load_state(d, offer, ghOk)
  IN IF l.err # NoErr THEN l
     ELSE IF l.ret = None
     THEN Res(l.disk, l.out \o <<Plain("No state")>>, NoErr, None)
     ELSE Res(IF FilesLeft(l.ret) = 0 THEN Absent ELSE l.disk,
              l.out \o <<StatusMsg(l.ret)>>, NoErr, None)

\* cmd_status, lines 159-169.
cmd_status(d, offer, ghOk) ==
  LET l == load_state(d, offer, ghOk)
  IN IF l.err # NoErr THEN l
     ELSE IF l.ret = None
     THEN Res(l.disk, l.out \o <<Plain("No state")>>, NoErr, None)
     ELSE Res(l.disk, l.out \o <<StatusMsg(l.ret)>>, NoErr, None)

\* Mutant of cmd_review: the check of lines 177-179 is missing.
cmd_review_NoReviewedCheck(d, path, mode, offer, ghOk, mark) ==
  LET l == load_state(d, offer, ghOk)
  IN IF l.err # NoErr THEN Res(l.disk, l.out, l.err, FALSE)
     ELSE IF l.ret = None \/ path \notin DOMAIN l.ret.files
     THEN Res(l.disk, l.out \o <<Plain("Unknown file")>>, NoErr, FALSE)
     ELSE LET shown == l.out \o <<Msg("review action", path, <<>>, "", <<>>),
                                  Asked("Mark reviewed?", mark)>>
          IN IF ~mark THEN Res(l.disk, shown, NoErr, FALSE)
             ELSE LET state == MarkReviewed(l.ret, path)
                      s == save_state(state)
                  IN Res(s.disk,
                         shown \o s.out
                           \o <<Msg("Marked", path, <<>>, mode,
                                    <<state.files[path].lines>>)>>,
                         NoErr, TRUE)

\* Mutant of cmd_review: the record is saved before the prompt is answered.
cmd_review_SavesBeforeAsking(d, path, mode, offer, ghOk, mark) ==
  LET l == load_state(d, offer, ghOk)
  IN IF l.err # NoErr THEN Res(l.disk, l.out, l.err, FALSE)
     ELSE IF l.ret = None \/ path \notin DOMAIN l.ret.files
     THEN Res(l.disk, l.out \o <<Plain("Unknown file")>>, NoErr, FALSE)
     ELSE IF l.ret.files[path].reviewed
     THEN Res(l.disk,
              l.out \o <<Msg("already reviewed", path, <<>>, "", <<>>)>>,
              NoErr, FALSE)
     ELSE LET state == MarkReviewed(l.ret, path)
              s == save_state(state)
              shown == l.out \o <<Msg("review action", path, <<>>, "", <<>>)>>
                         \o s.out \o <<Asked("Mark reviewed?", mark)>>
          IN IF ~mark THEN Res(s.disk, shown, NoErr, FALSE)
             ELSE Res(s.disk,
                      shown \o <<Msg("Marked", path, <<>>, mode,
                                     <<state.files[path].lines>>)>>,
                      NoErr, TRUE)

\* Mutant of cmd_reset: a record with a reviewed file is kept.
cmd_reset_KeepsProgress(d) ==
  IF d # Absent /\ \A p \in DOMAIN d.files : ~d.files[p].reviewed
  THEN Res(Absent, <<Plain("Reset review progress")>>, NoErr, None)
  ELSE Res(d, <<Plain("No state to reset")>>, NoErr, None)

\* Mutant of cmd_review: in deep mode the file is marked whatever the answer
\* to the prompt is.
cmd_review_DeepMarksUnasked(d, path, mode, offer, ghOk, mark) ==
  LET l == load_state(d, offer, ghOk)
  IN IF l.err # NoErr THEN Res(l.disk, l.out, l.err, FALSE)
     ELSE IF l.ret = None \/ path \notin DOMAIN l.ret.files
     THEN Res(l.disk, l.out \o <<Plain("Unknown file")>>, NoErr, FALSE)
     ELSE IF l.ret.files[path].reviewed
     THEN Res(l.disk,
              l.out \o <<Msg("already reviewed", path, <<>>, "", <<>>)>>,
              NoErr, FALSE)
     ELSE LET shown == l.out \o <<Msg("review action", path, <<>>, "", <<>>),
                                  Asked("Mark reviewed?", mark)>>
          IN IF ~mark /\ mode # "deep" THEN Res(l.disk, shown, NoErr, FALSE)
             ELSE LET state == MarkReviewed(l.ret, path)
                      s == save_state(state)
                  IN Res(s.disk,
                         shown \o s.out
                           \o <<Msg("Marked", path, <<>>, mode,
                                    <<state.files[path].lines>>)>>,
                         NoErr, TRUE)

\* cmd_review, lines 172-187.  mark: the answer to "Mark reviewed?".
cmd_review(d, path, mode, offer, ghOk, mark) ==
  LET l == load_state(d, offer, ghOk)
  IN IF l.err # NoErr THEN Res(l.disk, l.out, l.err, FALSE)
     ELSE IF l.ret = None \/ path \notin DOMAIN l.ret.files
     THEN Res(l.disk, l.out \o <<Plain("Unknown file")>>, NoErr, FALSE)
     ELSE IF l.ret.files[path].reviewed
     THEN Res(l.disk,
              l.out \o <<Msg("already reviewed", path, <<>>, "", <<>>)>>,
              NoErr, FALSE)
     ELSE LET shown == l.out \o <<Msg("review action", path, <<>>, "", <<>>),
                                  Asked("Mark reviewed?", mark)>>
          IN IF ~mark THEN Res(l.disk, shown, NoErr, FALSE)
             ELSE LET state == MarkReviewed(l.ret, path)
                      s == save_state(state)
                  IN Res(s.disk,
                         shown \o s.out
                           \o <<Msg("Marked", path, <<>>, mode,
                                    <<state.files[path].lines>>)>>,
                         NoErr, TRUE)

\* cmd_reset, lines 190-196.
cmd_reset(d) ==
  IF d # Absent
  THEN Res(Absent, <<Plain("Reset review progress")>>, NoErr, None)
  ELSE Res(d, <<Plain("No state to reset")>>, NoErr, None)

\* --------------------------------------------------------------- selectors

\* Characters of a selector token; "sup2" is the superscript two (U+00B2).
AsciiDigits == {"0", "1", "2", "3", "4", "5", "6", "7", "8", "9"}

\* The characters str.isdigit accepts: the decimal digits and the other
\* characters of numeric type Digit, such as the superscript two.
DigitChars == AsciiDigits \cup {"sup2"}

\* The tokens typed as selectors.
Tokens ==
  {<<"1">>, <<"2">>, <<"9">>, <<"0">>, <<"x">>, <<"0", "1">>, <<"sup2">>}

\* str.isdigit, line 203: non-empty, and every character a digit character.
isdigit(tok) == Len(tok) > 0 /\ \A i \in 1..Len(tok) : tok[i] \in DigitChars

DigitVal(c) ==
  CASE c = "0" -> 0 [] c = "1" -> 1 [] c = "2" -> 2 [] c = "3" -> 3
    [] c = "4" -> 4 [] c = "5" -> 5 [] c = "6" -> 6 [] c = "7" -> 7
    [] c = "8" -> 8 [] c = "9" -> 9

\* int() raises ValueError on a character that is no decimal digit.
IntRaises(tok) == \E i \in 1..Len(tok) : tok[i] \notin AsciiDigits

RECURSIVE IntOf(_)
\* int() of a string of decimal digits, line 203
IntOf(tok) ==
  IF tok = <<>> THEN 0
  ELSE IntOf(SubSeq(tok, 1, Len(tok) - 1)) * 10 + DigitVal(tok[Len(tok)])

\* valid_ids, lines 201-206, for one token and a path list of length n:
\* "invalid" (diagnostic, skipped), "valid" (yielded) or "raise" (int()
\* raises ValueError out of the generator).
valid_ids(tok, n) ==
  IF ~isdigit(tok) THEN "invalid"
  ELSE IF IntRaises(tok) THEN "raise"
  ELSE IF ~(1 <= IntOf(tok) /\ IntOf(tok) <= n) THEN "invalid"
  ELSE "valid"

InvalidMsg(tok) == Msg("invalid file id", "", tok, "", <<>>)

\* ------------------------------------------------------- session commands

\* The command table, lines 235-242.
PrintCmds == {"p", "print"}
ReviewCmds == {"rs", "rd"}
ListCmds == {"ls", "lsu"}
LoopCmds == PrintCmds \cup ReviewCmds
\* A word that is no command.
UnknownCmds == {"zz"}

ModeOf(cmd) == IF cmd = "rd" THEN "deep" ELSE "skim"

\* The session is at its prompt.
Idle == [cmd |-> "", ids |-> <<>>, pos |-> 0, here |-> <<>>]

\* state["files"].get(path, {}).get("lines", 0), lines 225 and 232
LinesOr0(state, path) ==
  IF path \in DOMAIN state.files THEN state.files[path].lines ELSE 0

\* state["files"].get(path, {}).get("reviewed"), line 231
ReviewedOrNone(state, path) ==
  path \in DOMAIN state.files /\ state.files[path].reviewed

\* list_all, lines 222-226
list_all(d, ps, offer, ghOk) ==
  LET l == load_state(d, offer, ghOk)
      state == l.ret
  IN IF l.err # NoErr THEN l
     ELSE Res(l.disk,
              l.out \o [i \in 1..Len(ps) |->
                          Msg("ls", ps[i], <<>>, "",
                              <<i, LinesOr0(state, ps[i])>>)],
              NoErr, None)

\* list_unreviewed, lines 228-233
list_unreviewed(d, ps, offer, ghOk) ==
  LET l == load_state(d, offer, ghOk)
      state == l.ret
      all == [i \in 1..Len(ps) |->
                Msg("lsu", ps[i], <<>>, "", <<i, LinesOr0(state, ps[i])>>)]
  IN IF l.err # NoErr THEN l
     ELSE Res(l.disk,
              l.out \o SelectSeq(all,
                                 LAMBDA m : ~ReviewedOrNone(state, m.path)),
              NoErr, None)

\* The summary printed when the loop is left, lines 262-265.
Summary(app) ==
  IF app = <<>> THEN <<>>
  ELSE <<Plain("Approved in this session:")>>
         \o [i \in 1..Len(app) |-> Msg("-", app[i], <<>>, "", <<>>)]

\* The answers worth asking for: an overview is offered only when the
\* state file is absent, and gh is only run by an accepted offer.
Offers(d) == IF d = Absent THEN BOOLEAN ELSE {FALSE}
GhOks(d) == IF d = Absent THEN BOOLEAN ELSE {TRUE}

\* -------------------------------------------------------------------- Init

\* The handler a step ran, and the path it was given ("": none).
Ran(op, path) == [op |-> op, path |-> path]

\* The terminals that run a review at the same time (SpecProcs).
Procs == {"A", "B"}

\* One review process: its position in cmd_review, its in-memory state, the
\* path it reviews, what its load_state found, and whether its save_state
\* has completed.
NewProc ==
  [pc |-> "start", mem |-> None, path |-> "", seen |-> "nothing",
   wrote |-> FALSE]

NoProcs == [q \in Procs |-> NewProc]

\* The pull requests a session is entered with: n files of 2 and 1 changed
\* lines in turn.
SessionPRs ==
  {[i \in 1..n |-> FileData(i, <<1, i % 2>>)] : n \in 0..MaxFiles}

\* A single-shot command is about to run (main, lines 268-297).  The state
\* file outlives the process: it is absent, or it holds the record of the
\* pull request's files in the shape lines 138-146 give it.
InitCli ==
  /\ pr \in FileLists
  /\ disk \in {Absent, CreateState(pr)}
  /\ sess = "none"
  /\ paths = <<>>
  /\ approved = <<>>
  /\ line = Idle
  /\ out = <<>>
  /\ exc = NoErr
  /\ procs = NoProcs
  /\ last = Ran("", "")
  /\ marks = <<>>

\* _interactive_session(paths, pr_key) is at its first prompt (lines
\* 199-200, 244-247) with the paths of a pull request as its parameter; the
\* state file holds their record, or has been removed since.  cmd_overview
\* itself gets here only with an empty list (line 147): the session is
\* modelled for every parameter it can be called with.
InitSession ==
  /\ pr \in SessionPRs
  /\ disk \in {Absent, CreateState(pr)}
  /\ sess = "running"
  /\ paths = PathsOf(pr)
  /\ approved = <<>>
  /\ line = Idle
  /\ out = <<>>
  /\ exc = NoErr
  /\ procs = NoProcs
  /\ last = Ran("", "")
  /\ marks = <<>>

Init == InitCli \/ InitSession

\* ----------------------------------------------------------------- actions

\* The paths of ps whose reviewed flag is false (or missing) in the state
\* file d and true in the state file d2.
Turned(d, d2, ps) ==
  SelectSeq(ps, LAMBDA p :
                  /\ IsRecord(d2) /\ p \in DOMAIN d2.files
                  /\ d2.files[p].reviewed
                  /\ ~(IsRecord(d) /\ p \in DOMAIN d.files
                         /\ d.files[p].reviewed))

\* The process ends: with an exception e, or normally (NoErr).
Ends(d, o, e, l) ==
  /\ last' = l
  /\ disk' = d
  /\ out' = o
  /\ exc' = e
  /\ sess' = "none"
  /\ paths' = <<>>
  /\ approved' = <<>>
  /\ line' = Idle
  /\ marks' = <<>>
  /\ UNCHANGED <<pr, procs>>

\* codereview overview [-i], lines 287-288 and 123-156.
DoOverview(interactive, ghOk) ==
  /\ sess = "none"
  /\ LET r == cmd_overview(disk, ghOk)
     IN IF r.err = NoErr /\ interactive
        THEN /\ disk' = r.disk
             /\ out' = r.out \o <<Plain("commands")>>
             /\ exc' = NoErr
             /\ sess' = "running"
             /\ paths' = r.ret
             /\ approved' = <<>>
             /\ line' = Idle
             /\ last' = Ran("overview", "")
             /\ marks' = <<>>
             /\ UNCHANGED <<pr, procs>>
        ELSE Ends(r.disk, r.out, r.err, Ran("overview", ""))

\* codereview status | reset | review when current_pr_key fails
\* (lines 40-42, 290, 292, 295).
DoNoPrKey ==
  /\ sess = "none"
  /\ Ends(disk, <<Plain("unable to determine current PR")>>, SysExit,
          Ran("main", ""))

\* codereview status, lines 289-290.
DoStatus(offer, ghOk) ==
  /\ sess = "none"
  /\ LET r == cmd_status(disk, offer, ghOk)
     IN Ends(r.disk, r.out, r.err, Ran("status", ""))

\* codereview review <file> [--skim|--deep], lines 293-295.
DoReview(path, mode, offer, ghOk, mark) ==
  /\ sess = "none"
  /\ LET r == cmd_review(disk, path, mode, offer, ghOk, mark)
     IN Ends(r.disk, r.out, r.err, Ran("review", path))

\* codereview reset, lines 291-292.
DoReset ==
  /\ sess = "none"
  /\ LET r == cmd_reset(disk)
     IN Ends(r.disk, r.out, r.err, Ran("reset", ""))

AtPrompt == sess = "running" /\ line = Idle

\* A line with a list command or an unknown word is read and executed
\* (lines 247-261): the listing or "unknown command", then cmd_status.
SessOther(cmd, ids, offer1, offer2, ghOk) ==
  /\ AtPrompt
  /\ LET f == IF cmd = "ls" THEN list_all(disk, paths, offer1, ghOk)
              ELSE IF cmd = "lsu"
              THEN list_unreviewed(disk, paths, offer1, ghOk)
              ELSE Res(disk, <<Plain("unknown command")>>, NoErr, None)
         st == cmd_status(f.disk, offer2, ghOk)
     IN IF f.err # NoErr THEN Ends(f.disk, f.out, f.err, Ran(cmd, ""))
        ELSE IF st.err # NoErr
        THEN Ends(st.disk, f.out \o st.out, st.err, Ran(cmd, ""))
        ELSE /\ last' = Ran(cmd, "")
             /\ disk' = st.disk
             /\ out' = f.out \o st.out
             /\ exc' = NoErr
             /\ marks' = marks \o Turned(disk, disk', paths)
             /\ UNCHANGED <<pr, procs, sess, paths, approved, line>>

\* A line with p, print, rs or rd is read and split (lines 247-258): the
\* loop over its selectors starts.
SessRead(cmd, ids) ==
  /\ AtPrompt
  /\ line' = [cmd |-> cmd, ids |-> ids, pos |-> 0, here |-> <<>>]
  /\ last' = Ran("input", "")
  /\ out' = <<>>
  /\ exc' = NoErr
  /\ UNCHANGED <<pr, procs, disk, sess, paths, approved, marks>>

\* One round of the loop of print_files or review_files over valid_ids
\* (lines 208-220): the next selector is checked and acted on.
SessToken(offer, ghOk, mark) ==
  /\ sess = "running"
  /\ line.cmd \in LoopCmds
  /\ line.pos < Len(line.ids)
  /\ LET tok == line.ids[line.pos + 1]
         class == valid_ids(tok, Len(paths))
         path == paths[IntOf(tok)]
         next == [line EXCEPT !.pos = @ + 1]
     IN CASE class = "raise" ->
               Ends(disk, <<>>, ValueErr, Ran("valid_ids", ""))
          [] class = "invalid" ->
               /\ last' = Ran("valid_ids", "")
               /\ out' = <<InvalidMsg(tok)>>
               /\ line' = next
               /\ exc' = NoErr
               /\ UNCHANGED <<pr, procs, disk, sess, paths, approved, marks>>
          [] class = "valid" /\ line.cmd \in PrintCmds ->
               /\ last' = Ran("print", path)
               /\ out' = <<Msg("==", path, <<>>, "", <<>>)>>
               /\ line' = next
               /\ exc' = NoErr
               /\ UNCHANGED <<pr, procs, disk, sess, paths, approved, marks>>
          [] class = "valid" /\ line.cmd \in ReviewCmds ->
               LET r == cmd_review(disk, path, ModeOf(line.cmd),
                                   offer, ghOk, mark)
               IN IF r.err # NoErr
                  THEN Ends(r.disk, r.out, r.err, Ran("review", path))
                  ELSE /\ last' = Ran("review", path)
                       /\ disk' = r.disk
                       /\ out' = r.out
                       /\ line' = [next EXCEPT !.here =
                                     IF r.ret THEN Append(@, path) ELSE @]
                       /\ exc' = NoErr
                       /\ marks' = marks \o Turned(disk, disk', paths)
                       /\ UNCHANGED <<pr, procs, sess, paths, approved>>

\* Mutant of SessFinish: cmd_status runs only after a command that approved
\* a file.
SessFinish_ReportsApprovalsOnly(offer, ghOk) ==
  /\ sess = "running"
  /\ line.cmd \in LoopCmds
  /\ line.pos = Len(line.ids)
  /\ LET st == IF line.here # <<>> THEN cmd_status(disk, offer, ghOk)
               ELSE Res(disk, <<>>, NoErr, None)
     IN IF st.err # NoErr
        THEN Ends(st.disk, st.out, st.err, Ran("status", ""))
        ELSE /\ last' = Ran("status", "")
             /\ disk' = st.disk
             /\ out' = st.out
             /\ approved' = approved \o line.here
             /\ line' = Idle
             /\ exc' = NoErr
             /\ marks' = marks \o Turned(disk, disk', paths)
             /\ UNCHANGED <<pr, procs, sess, paths>>

\* The "Mark reviewed?" prompt of a review in the session is answered with
\* the end of input or an interrupt: input() raises inside yn (lines 66,
\* 181), outside the try of lines 246-250, and the exception ends the
\* process.  The prompt is reached for a valid selector of a file the record
\* holds unreviewed (lines 174-180).
SessPromptLeft ==
  /\ sess = "running"
  /\ line.cmd \in ReviewCmds
  /\ line.pos < Len(line.ids)
  /\ LET tok == line.ids[line.pos + 1]
         path == paths[IntOf(tok)]
     IN /\ valid_ids(tok, Len(paths)) = "valid"
        /\ IsRecord(disk)
        /\ path \in DOMAIN disk.files
        /\ ~disk.files[path].reviewed
        /\ Ends(disk,
                <<Msg("review action", path, <<>>, "", <<>>),
                  Plain("Mark reviewed?")>>,
                Interrupted, Ran("review", path))

\* The loop is over: the command's result extends approved (lines 258-260)
\* and cmd_status reports (line 261).
SessFinish(offer, ghOk) ==
  /\ sess = "running"
  /\ line.cmd \in LoopCmds
  /\ line.pos = Len(line.ids)
  /\ LET st == cmd_status(disk, offer, ghOk)
     IN IF st.err # NoErr
        THEN Ends(st.disk, st.out, st.err, Ran("status", ""))
        ELSE /\ last' = Ran("status", "")
             /\ disk' = st.disk
             /\ out' = st.out
             /\ approved' = approved \o line.here
             /\ line' = Idle
             /\ exc' = NoErr
             /\ marks' = marks \o Turned(disk, disk', paths)
             /\ UNCHANGED <<pr, procs, sess, paths>>

\* A blank line, the end of input or an interrupt (lines 246-252): the
\* loop is left, the summary printed (lines 262-265) and the process ends.
SessExit ==
  /\ AtPrompt
  /\ Ends(disk, Summary(approved), NoErr, Ran("exit", ""))

Next ==
  \/ \E i \in BOOLEAN, g \in BOOLEAN : DoOverview(i, g)
  \/ DoNoPrKey
  \/ \E o \in Offers(disk), g \in GhOks(disk) : DoStatus(o, g)
  \/ \E p \in ReviewPaths, m \in Modes, o \in Offers(disk),
        g \in GhOks(disk), k \in BOOLEAN : DoReview(p, m, o, g, k)
  \/ DoReset
  \/ \E c \in ListCmds \cup UnknownCmds, ids \in {<<>>, <<<<"1">>>>},
        o1 \in Offers(disk), o2 \in Offers(disk), g \in GhOks(disk) :
       SessOther(c, ids, o1, o2, g)
  \/ \E c \in LoopCmds, ids \in SeqsUpTo(Tokens, MaxIds) : SessRead(c, ids)
  \/ \E o \in Offers(disk), g \in GhOks(disk),
        k \in (IF line.cmd \in ReviewCmds THEN BOOLEAN ELSE {FALSE}) :
       SessToken(o, g, k)
  \/ SessPromptLeft
  \/ \E o \in Offers(disk), g \in GhOks(disk) : SessFinish(o, g)
  \/ SessExit

Spec == Init /\ [][Next]_vars

\* ------------------------------------------------------- steps and outputs

\* The step runs cmd_review on path p: codereview review p, or the session's
\* rs or rd on a valid selector of p.
ReviewOn(p) == last' = Ran("review", p)

\* The transcript o holds the message m.
Printed(o, m) == \E i \in 1..Len(o) : o[i] = m

\* The transcript o holds a message of kind k.
PrintedKind(o, k) == \E i \in 1..Len(o) : o[i].msg = k

IsReviewed(d, p) == IsRecord(d) /\ p \in DOMAIN d.files /\ d.files[p].reviewed

\* The record has no reviewed file: it is as the overview created it.
Fresh(d) == IsRecord(d) /\ \A p \in DOMAIN d.files : ~d.files[p].reviewed

\* ------------------------------------------------------------------ claims

\* C1: within the lifetime of one record (no overview run, no reset), a
\* file whose reviewed flag is true keeps it true over every step of review,
\* print, list and status.
C1_ReviewedNeverReverses ==
  [][(/\ IsRecord(disk)
      /\ last'.op \notin {"reset", "overview"})
     => \A p \in DOMAIN disk.files :
          disk.files[p].reviewed => IsReviewed(disk', p)]_vars

\* C1 witness: a file is reviewed and a later command has reported status
\* or found it already reviewed.
C1_Witness ==
  /\ \E p \in DOMAIN disk.files : IsReviewed(disk, p)
  /\ PrintedKind(out, "status") \/ PrintedKind(out, "already reviewed")

\* C2: total_lines of the record equals the sum of the lines of its files,
\* at creation and after every mark-reviewed transition.
C2_TotalLinesIsSum ==
  IsRecord(disk) => disk.total_lines = SumOver(disk.files, DOMAIN disk.files)

\* C2 witness: a record of two files with changed lines, one of them just
\* marked reviewed.
C2_Witness ==
  /\ IsRecord(disk)
  /\ Cardinality(DOMAIN disk.files) >= 2
  /\ disk.total_lines > 0
  /\ PrintedKind(out, "Marked")
  /\ \E p \in DOMAIN disk.files : disk.files[p].reviewed

\* C3: reviewing a path that is already reviewed leaves the record as it
\* is, reports "already reviewed" and adds no approval.
C3_SecondReviewIsNoOp ==
  [][\A p \in ReviewPaths :
       (IsReviewed(disk, p) /\ ReviewOn(p))
         => /\ disk' = disk
            /\ out' = <<Msg("already reviewed", p, <<>>, "", <<>>)>>
            /\ approved' = approved
            /\ (sess = "running" => line'.here = line.here)]_vars

\* C3 witness: a review of a reviewed path has reported "already reviewed".
C3_Witness ==
  \E p \in ReviewPaths :
    /\ IsReviewed(disk, p)
    /\ out = <<Msg("already reviewed", p, <<>>, "", <<>>)>>

\* round(100 * reviewedLines / total_lines), halves upwards; 100 for no lines
RoundedPercent(state) ==
  IF state.total_lines > 0
  THEN (200 * ReviewedLines(state) + state.total_lines)
         \div (2 * state.total_lines)
  ELSE 100

\* C4: the percentage of every status report is
\* round(100 * reviewedLines / total_lines), and 100 when total_lines is 0.
C4_PercentIsRounded ==
  \A i \in 1..Len(out) :
    (out[i].msg = "status" /\ IsRecord(disk))
      => out[i].nums[2] = RoundedPercent(disk)

\* C5 as stated: on a fresh record with total_lines = 0 status reports 0 lines
\* remaining, 100 percent and 0 files remaining.
C5_FreshEmptyReportsNoFiles ==
  \A i \in 1..Len(out) :
    (out[i].msg = "status" /\ Fresh(disk) /\ disk.total_lines = 0)
      => out[i].nums = <<0, 100, 0>>

\* C5 amended: on a fresh record with total_lines = 0 status reports 0 lines
\* remaining, 100 percent, and as many files remaining as the record has.
C5_FreshEmptyReportsEveryFile ==
  \A i \in 1..Len(out) :
    (out[i].msg = "status" /\ Fresh(disk) /\ disk.total_lines = 0)
      => out[i].nums = <<0, 100, Cardinality(DOMAIN disk.files)>>

\* C5 witness: status has reported on a fresh record of files without
\* changed lines.
C5_Witness ==
  /\ PrintedKind(out, "status")
  /\ Fresh(disk)
  /\ disk.total_lines = 0
  /\ DOMAIN disk.files # {}

\* A base-10 integer within [1, n]: decimal digits only, value in range.
IsSelector(tok, n) ==
  /\ Len(tok) > 0
  /\ \A i \in 1..Len(tok) : tok[i] \in AsciiDigits
  /\ 1 <= IntOf(tok) /\ IntOf(tok) <= n

\* C6: every selector of print, rs and rd that is a base-10 integer in
\* [1, N] is acted on as paths[token-1]; every other one gets one
\* invalid-id diagnostic and is skipped: no file is touched and the loop
\* goes on to the next selector.
C6_SelectorsValidated ==
  [][(/\ sess = "running"
      /\ line.cmd \in LoopCmds
      /\ line.pos < Len(line.ids)
      /\ last'.op \in {"valid_ids", "print", "review"})
     => LET tok == line.ids[line.pos + 1]
        IN IF IsSelector(tok, Len(paths))
           THEN /\ \A i \in 1..Len(out') :
                     out'[i].path \in {"", paths[IntOf(tok)]}
                /\ line.cmd \in PrintCmds
                     => out' = <<Msg("==", paths[IntOf(tok)], <<>>, "", <<>>)>>
           ELSE /\ out' = <<InvalidMsg(tok)>>
                /\ disk' = disk
                /\ sess' = "running"
                /\ line' = [line EXCEPT !.pos = @ + 1]]_vars

\* The user declined the "Mark reviewed?" prompt.
Declined(o) == Printed(o, Asked("Mark reviewed?", FALSE))

\* The user declined the offer to run the overview.
OfferDeclined(o) == Printed(o, Asked("No state file. Run overview?", FALSE))

\* C7 as stated: a review of a path that is not in the record, of an absent
\* record, of a reviewed path, or whose prompt is declined, leaves the
\* state file as it was.
C7_FailedReviewWritesNothing ==
  [][\A p \in ReviewPaths :
       (/\ ReviewOn(p)
        /\ \/ disk = Absent
           \/ IsRecord(disk) /\ p \notin DOMAIN disk.files
           \/ IsReviewed(disk, p)
           \/ Declined(out'))
         => disk' = disk]_vars

\* C7 amended: a review of a path that is not in the record, of an absent
\* record whose overview offer is declined, of a reviewed path, or whose
\* prompt is declined, leaves the state file as it was.
C7_FailedReviewKeepsRecord ==
  [][\A p \in ReviewPaths :
       (/\ ReviewOn(p)
        /\ \/ disk = Absent /\ OfferDeclined(out')
           \/ IsRecord(disk) /\ p \notin DOMAIN disk.files
           \/ IsReviewed(disk, p)
           \/ Declined(out'))
         => disk' = disk]_vars

\* C7 witness: the prompt of a review of a known, unreviewed path was
\* declined.
C7_Witness ==
  /\ Declined(out)
  /\ \E p \in DOMAIN disk.files :
       Printed(out, Msg("review action", p, <<>>, "", <<>>))
         /\ ~IsReviewed(disk, p)

\* C8: after every overview run (gh answering) the state file holds exactly the record of
\* the pull request's files: each with reviewed = false and
\* lines = additions + deletions.
C8_OverviewReplacesRecord ==
  [][(last'.op = "overview" /\ exc' # SysExit)
       => disk' = CreateState(pr)]_vars

\* C9: after reset the record is absent whatever it was before; reset of an
\* absent record only reports; and a load that follows, its overview offer
\* declined, finds no state and creates none.
C9_ResetLeavesAbsent ==
  [][/\ last'.op = "reset"
          => /\ disk' = Absent
             /\ disk = Absent => out' = <<Plain("No state to reset")>>
     /\ (last.op = "reset" /\ last'.op = "status" /\ OfferDeclined(out'))
          => /\ disk' = Absent
             /\ out' = <<Asked("No state file. Run overview?", FALSE),
                         Plain("No state")>>]_vars

\* C9 witness: reset has removed an existing record.
C9_Witness ==
  /\ disk = Absent
  /\ out = <<Plain("Reset review progress")>>

\* ------------------------------------------------- concurrent invocations

\* Two terminals run codereview review on the same pr_key.  cmd_review is
\* taken in the steps at which the state file is read or written: the load
\* (lines 173-179), the prompt and the open of save_state (lines 180-186),
\* and the dump (line 87).  The overview offer of load_state is declined.
InitProcs ==
  /\ pr \in SessionPRs
  /\ disk \in {Absent, CreateState(pr)}
  /\ sess = "none"
  /\ paths = <<>>
  /\ approved = <<>>
  /\ line = Idle
  /\ out = <<>>
  /\ exc = NoErr
  /\ procs = NoProcs
  /\ last = Ran("", "")
  /\ marks = <<>>

Session0 == <<pr, sess, paths, approved, line, out, exc, last, marks>>

\* load_state and the checks of cmd_review, lines 173-179.
PLoad(q, path) ==
  /\ procs[q].pc = "start"
  /\ LET l == load_state(disk, FALSE, TRUE)
         pc == IF l.err # NoErr THEN "dead"
               ELSE IF l.ret = None \/ path \notin DOMAIN l.ret.files
                       \/ l.ret.files[path].reviewed
               THEN "end"
               ELSE "ask"
     IN procs' = [procs EXCEPT ![q] =
                    [pc |-> pc, mem |-> l.ret, path |-> path,
                     seen |-> IF l.err # NoErr THEN "torn" ELSE l.ret.kind,
                     wrote |-> FALSE]]
  /\ UNCHANGED <<disk, Session0>>

\* Mutant of PAnswer: the mark is put on the record as the state file holds
\* it at the time of the save (a reload under a lock), where it is readable.
PAnswer_MarksCurrent(q, mark) ==
  /\ procs[q].pc = "ask"
  /\ IF mark
     THEN /\ procs' = [procs EXCEPT
                         ![q].mem = MarkReviewed(IF IsRecord(disk) THEN disk
                                                 ELSE @, procs[q].path),
                         ![q].pc = "dump"]
          /\ disk' = Torn
     ELSE /\ procs' = [procs EXCEPT ![q].pc = "end"]
          /\ UNCHANGED disk
  /\ UNCHANGED Session0

\* The prompt, the mark in memory and the open of the state file for
\* writing, which truncates it (lines 180-183, 84-86).
PAnswer(q, mark) ==
  /\ procs[q].pc = "ask"
  /\ IF mark
     THEN /\ procs' = [procs EXCEPT
                         ![q].mem = MarkReviewed(@, procs[q].path),
                         ![q].pc = "dump"]
          /\ disk' = Torn
     ELSE /\ procs' = [procs EXCEPT ![q].pc = "end"]
          /\ UNCHANGED disk
  /\ UNCHANGED Session0

\* json.dump and the close of the file (line 87), then lines 185-187.
PDump(q) ==
  /\ procs[q].pc = "dump"
  /\ disk' = procs[q].mem
  /\ procs' = [procs EXCEPT ![q].pc = "end", ![q].wrote = TRUE]
  /\ UNCHANGED Session0

\* The process is killed while it waits at the prompt or writes.
PCrash(q) ==
  /\ procs[q].pc \in {"ask", "dump"}
  /\ procs' = [procs EXCEPT ![q].pc = "dead"]
  /\ UNCHANGED <<disk, Session0>>

\* The terminal runs the command again.
PAgain(q) ==
  /\ procs[q].pc \in {"end", "dead"}
  /\ procs' = [procs EXCEPT ![q] = NewProc]
  /\ UNCHANGED <<disk, Session0>>

NextProcs ==
  \/ \E q \in Procs, p \in ReviewPaths : PLoad(q, p)
  \/ \E q \in Procs, k \in BOOLEAN : PAnswer(q, k)
  \/ \E q \in Procs : PDump(q)
  \/ \E q \in Procs : PCrash(q)
  \/ \E q \in Procs : PAgain(q)

SpecProcs == InitProcs /\ [][NextProcs]_vars

\* C10: no load of the state file, during a save or after a crash, finds
\* anything but a complete record (the old one or the new one).
C10_SaveIsAtomic ==
  \A q \in Procs : procs[q].seen # "torn"

\* C11: there is no locking and the last save wins.  The copy a process
\* saves is the one it loaded, with its own mark and nothing re-read, and
\* the save replaces whatever the state file holds; the interleaving in
\* which a stale copy overwrites another process's mark is C11_Witness.
C11_LastSaveWins ==
  [][\A q \in Procs :
       /\ (procs[q].pc = "ask" /\ procs'[q].pc = "dump")
            => procs'[q].mem = MarkReviewed(procs[q].mem, procs[q].path)
       /\ (procs[q].pc = "dump" /\ procs'[q].pc = "end")
            => disk' = procs[q].mem]_vars

\* C11 witness: both processes have saved; B's copy has B's file reviewed,
\* and the state file holds A's copy, in which B's file is not reviewed.
C11_Witness ==
  \E a \in Procs, b \in Procs :
    /\ a # b
    /\ procs[a].wrote /\ procs[b].wrote
    /\ procs[a].path # procs[b].path
    /\ IsReviewed(procs[b].mem, procs[b].path)
    /\ disk = procs[a].mem
    /\ IsReviewed(disk, procs[a].path)
    /\ ~IsReviewed(disk, procs[b].path)

\* ------------------------------------------------------------- the session

\* C12: the session is Running or Terminated, and it leaves Running only on
\* blank input, EOF or interrupt: every other line, an unknown command and
\* a command whose selectors are all invalid included, is executed to its
\* end and the session is still running at the next prompt.  Stated for
\* the steps taken while the record exists, where no command asks the
\* pull-request metadata source and so none can fail on it.
C12_SessionEndsOnlyOnExit ==
  [][(sess = "running" /\ IsRecord(disk) /\ sess' # "running")
       => \/ last'.op = "exit" /\ exc' = NoErr
          \/ exc' = Interrupted]_vars

\* The step ends a command of the session and the next prompt follows.
BackAtPrompt == sess = "running" /\ sess' = "running" /\ line' = Idle

\* The transcript o ends with the progress of the record d.
EndsWithStatus(o, d) == Len(o) > 0 /\ o[Len(o)] = StatusMsg(d)

\* C13: in the session, after every recognized command (p, print, rs, rd,
\* ls, lsu) the progress is reported before the next prompt, computed from
\* the record as the state file holds it after the command; where the state
\* file holds no record then, "No state" is reported in its place.
C13_StatusBeforeNextPrompt ==
  [][(BackAtPrompt /\ last'.op \notin UnknownCmds)
       => IF IsRecord(disk')
          THEN EndsWithStatus(out', disk')
          ELSE out'[Len(out')] = Plain("No state")]_vars

\* C13 witness: the session is back at its prompt after a review command
\* that marked the last unreviewed file, and the report shows the record
\* with every file reviewed.
C13_Witness ==
  /\ sess = "running"
  /\ line = Idle
  /\ last.op = "status"
  /\ approved # <<>>
  /\ IsRecord(disk)
  /\ FilesLeft(disk) = 0
  /\ out = <<StatusMsg(disk)>>

\* No path occurs twice in the sequence s.
NoDup(s) == \A i \in 1..Len(s), j \in 1..Len(s) : s[i] = s[j] => i = j

\* The lines of the transcript o that belong to the summary.
SummaryLines(o) ==
  SelectSeq(o, LAMBDA m : m.msg \in {"Approved in this session:", "-"})

\* C14: when the session ends (blank line, end of input or interrupt), the
\* summary lists exactly the paths whose flag this session turned from
\* false to true, in the order of those transitions, none twice (and
\* nothing is printed when there are none); a path whose prompt was
\* declined, that was already reviewed or whose selector was invalid is not
\* among them.
C14_SummaryListsMarks ==
  [][(sess = "running" /\ sess' # "running" /\ exc' \in {NoErr, Interrupted})
       => /\ SummaryLines(out') = Summary(marks)
          /\ NoDup(marks)
          /\ \A i \in 1..Len(marks) : IsReviewed(disk, marks[i])]_vars

\* The transcript o without the mode labels.
Unlabelled(o) == [i \in 1..Len(o) |-> [o[i] EXCEPT !.mode = ""]]

\* C15: the review mode is a label only.  From every record the program
\* reaches, a review of the same path with the same answers gives in skim
\* mode and in deep mode the same state file, the same outcome and return
\* value (what review_files appends to approved), the same progress, and
\* the same transcript but for the label; so do sequences of reviews, each
\* starting from the state both modes left.
C15_ModeIsDescriptive ==
  \A p \in ReviewPaths, o \in Offers(disk), g \in GhOks(disk), k \in BOOLEAN :
    LET skim == cmd_review(disk, p, "skim", o, g, k)
        deep == cmd_review(disk, p, "deep", o, g, k)
    IN /\ skim.disk = deep.disk
       /\ skim.err = deep.err
       /\ skim.ret = deep.ret
       /\ Unlabelled(skim.out) = Unlabelled(deep.out)
       /\ cmd_status(skim.disk, FALSE, TRUE) = cmd_status(deep.disk, FALSE, TRUE)

\* C15 witness: a review in deep mode has marked a file of a record in
\* which another file is still to be reviewed.
C15_Witness ==
  /\ \E i \in 1..Len(out) : out[i].msg = "Marked" /\ out[i].mode = "deep"
  /\ \E p \in DOMAIN disk.files : ~IsReviewed(disk, p)
  /\ \E p \in DOMAIN disk.files : IsReviewed(disk, p)

\* How many messages of kind k the transcript o holds.
CountKind(o, k) == Cardinality({i \in 1..Len(o) : o[i].msg = k})

\* The user accepted the offer to run the overview.
OfferAccepted(o) == Printed(o, Asked("No state file. Run overview?", TRUE))

\* C16: a load of a missing record asks once.  Declined, it returns absent
\* and creates no record; accepted (the metadata source answering), it runs
\* the overview once and reloads the record the overview saved, so that the
\* command goes on with a record.
C16_LoadRunsOverviewOnce ==
  [][(disk = Absent /\ last'.op \in {"status", "review"})
       => /\ CountKind(out', "No state file. Run overview?") = 1
          /\ CountKind(out', "PR Summary") <= 1
          /\ OfferDeclined(out')
               => disk' = Absent /\ CountKind(out', "PR Summary") = 0
          /\ (OfferAccepted(out') /\ exc' # SysExit)
               => /\ CountKind(out', "PR Summary") = 1
                  /\ exc' = NoErr
                  /\ disk' = CreateState(pr)]_vars

\* ------------------------------------------------------ frame and progress

\* The step is a review of p that marked it: it printed "Marked".
MarkedOn(p) == ReviewOn(p) /\ PrintedKind(out', "Marked")

\* C17: a successful mark-reviewed transition on p changes files[p].reviewed
\* from false to true and nothing else of the record: the file keys, the
\* lines of every file, the flag of every other file and total_lines stay.
C17_MarkChangesOneFlag ==
  [][\A p \in ReviewPaths :
       MarkedOn(p)
         => /\ IsRecord(disk) /\ IsRecord(disk')
            /\ DOMAIN disk'.files = DOMAIN disk.files
            /\ p \in DOMAIN disk.files
            /\ ~disk.files[p].reviewed /\ disk'.files[p].reviewed
            /\ \A f \in DOMAIN disk.files :
                 /\ disk'.files[f].lines = disk.files[f].lines
                 /\ f # p => disk'.files[f].reviewed = disk.files[f].reviewed
            /\ disk'.total_lines = disk.total_lines]_vars

\* C17 witness: a review has marked the last unreviewed file of a record of
\* two files with changed lines.
C17_Witness ==
  /\ PrintedKind(out, "Marked")
  /\ last.op = "review"
  /\ Cardinality(DOMAIN disk.files) = 2
  /\ disk.total_lines > 0
  /\ \A p \in DOMAIN disk.files : disk.files[p].reviewed

\* C18: the progress figures of every record reached from the overview's
\* record by mark-reviewed transitions are consistent: reviewed lines plus
\* remaining lines are total_lines, 0 <= remaining <= total_lines,
\* 0 <= percent <= 100, and with no file left unreviewed remaining is 0 and
\* percent is 100; and they are the figures a status report prints.
C18_ProgressConsistent ==
  IsRecord(disk)
    => /\ ReviewedLines(disk) + RemainingLines(disk) = disk.total_lines
       /\ 0 <= RemainingLines(disk) /\ RemainingLines(disk) <= disk.total_lines
       /\ 0 <= Percent(disk) /\ Percent(disk) <= 100
       /\ FilesLeft(disk) = 0
            => RemainingLines(disk) = 0 /\ Percent(disk) = 100
       /\ \A i \in 1..Len(out) :
            out[i].msg = "status"
              => out[i].nums = <<RemainingLines(disk), Percent(disk),
                                 FilesLeft(disk)>>

\* C18 witness: status has reported on a record with changed lines of which
\* some files are reviewed and some are not.
C18_Witness ==
  /\ PrintedKind(out, "status")
  /\ IsRecord(disk)
  /\ 0 < ReviewedLines(disk)
  /\ ReviewedLines(disk) < disk.total_lines
  /\ FilesLeft(disk) > 0

\* C19: in a session of one process against an existing record the
\* reported progress is monotone: every report shows the figures of the
\* record as the state file holds it, and over every step of the session the
\* lines remaining and the files remaining do not increase and the percent
\* reviewed does not decrease.
C19_ProgressMonotone ==
  [][(sess = "running" /\ sess' = "running" /\ IsRecord(disk))
       => /\ IsRecord(disk')
          /\ RemainingLines(disk') <= RemainingLines(disk)
          /\ FilesLeft(disk') <= FilesLeft(disk)
          /\ Percent(disk') >= Percent(disk)
          /\ \A i \in 1..Len(out') :
               out'[i].msg = "status" => out'[i] = StatusMsg(disk')]_vars

\* C19 witness: the session is at its prompt after a report that followed a
\* mark, with a file still to be reviewed.
C19_Witness ==
  /\ sess = "running"
  /\ line = Idle
  /\ PrintedKind(out, "status")
  /\ Len(marks) >= 1
  /\ IsRecord(disk)
  /\ FilesLeft(disk) >= 1
  /\ RemainingLines(disk) < disk.total_lines

\* The step belongs to a command that only reads: the session's ls, lsu or
\* unknown word with the report that follows it, every step of the session's
\* p or print (the line read, each selector, the report), or the single-shot
\* status.
ReadOnlyStep ==
  \/ last'.op \in ListCmds \cup UnknownCmds
  \/ sess = "none" /\ last'.op = "status"
  \/ sess = "running" /\ (line.cmd \in PrintCmds \/ line'.cmd \in PrintCmds)

\* C20: when a record exists, print, list-all, list-unreviewed, status and
\* an unknown command leave the state file as it was, and the approved list
\* of the session that goes on is unchanged.
C20_ReadOnlyCommands ==
  [][(IsRecord(disk) /\ ReadOnlyStep)
       => /\ disk' = disk
          /\ sess' = "running"
               => /\ approved' = approved
                  /\ line'.here = <<>>
                  /\ marks' = marks]_vars

\* C20 witness: the session has printed a file after it had marked one.
C20_Witness ==
  /\ sess = "running"
  /\ last.op = "print"
  /\ PrintedKind(out, "==")
  /\ approved # <<>>
  /\ \E p \in DOMAIN disk.files : IsReviewed(disk, p)

====
